---------------------------- MODULE Spec2Model ----------------------------
(***************************************************************************)
(* Model of the pagination engine (pagination.py) and of the validation-   *)
(* rule enrichment done by the tool handlers (server.py) of                *)
(* voucherify_core_mcp.                                                    *)
(*                                                                         *)
(* Python dicts are functions from string keys to values; a key that is    *)
(* absent from a dict is absent from the function's DOMAIN.  One tool      *)
(* invocation is one behaviour; it is cut into steps at its await points   *)
(* (the calls of async_make_voucherify_request).                           *)
(***************************************************************************)
EXTENDS Integers, Sequences, FiniteSets, TLC

(***************************************************************************)
(* Bounds of the model.                                                    *)
(***************************************************************************)
MaxT == 5          \* most items an honest server holds
MaxLimit == 3      \* largest page size requested
MaxItems == 4      \* largest max_items cap tried
MaxPageLen == 2    \* longest page an arbitrary server returns
MaxRequests == 3   \* most requests followed against an arbitrary server
ServerDefaultLimit == 2  \* page size of the endpoint when no limit is sent
MaxRules == 2      \* most assignments a document carries
MaxRedeemables == 2  \* most redeemables a qualification returns
MaxCustomers == 2  \* most customers an email lookup returns

(***************************************************************************)
(* Python values.                                                          *)
(***************************************************************************)
None == -1

Truthy(v) == v # None /\ v # 0

Min(a, b) == IF a <= b THEN a ELSE b

Max(a, b) == IF a >= b THEN a ELSE b

\* d.copy() followed by d[k] = v
Put(d, k, v) == [x \in (DOMAIN d) \cup {k} |-> IF x = k THEN v ELSE d[x]]

\* s[:n]
PySlice(s, n) ==
    IF n >= 0 THEN SubSeq(s, 1, Min(n, Len(s)))
              ELSE SubSeq(s, 1, Max(0, Len(s) + n))

\* _safe_get(d, [key], default)
_safe_get(d, key, default) == IF key \in DOMAIN d THEN d[key] ELSE default

(***************************************************************************)
(* The arguments every call of the model passes.                           *)
(***************************************************************************)
data_key == "campaigns"

cursor_field == "created_at"

page_param == "page"

(***************************************************************************)
(* The remote list endpoint.                                               *)
(***************************************************************************)
\* the cursor field value of the i-th item: distinct from every id
TsOf(i) == MaxT + i

Item(i) == [id |-> i, created_at |-> TsOf(i)]

ServerItems(n) == [i \in 1..n |-> Item(i)]

\* an honest endpoint that pages on starting_after = value of the cursor field
HonestTimestampBody(p, n) ==
    LET sa    == _safe_get(p, "starting_after", None)
        after == IF Truthy(sa) THEN Cardinality({i \in 1..n : TsOf(i) <= sa}) ELSE 0
        last  == Min(after + p["limit"], n)
    IN  (data_key :> SubSeq(ServerItems(n), after + 1, last))
        @@ [object |-> "list", data_ref |-> data_key, has_more |-> last < n]

\* an honest endpoint that pages on starting_after_id and names the id of the
\* page's last item as more_starting_after while items remain
HonestIdBody(p, n) ==
    LET sa    == _safe_get(p, "starting_after_id", None)
        after == IF Truthy(sa) THEN Cardinality({i \in 1..n : i <= sa}) ELSE 0
        last  == Min(after + p["limit"], n)
        body  == (data_key :> SubSeq(ServerItems(n), after + 1, last))
                 @@ [object |-> "list", data_ref |-> data_key, has_more |-> last < n]
    IN  IF last < n THEN ("more_starting_after" :> last) @@ body ELSE body

\* an honest page-numbered endpoint
HonestPagesBody(p, n) ==
    LET pg    == _safe_get(p, page_param, 1)
        lim   == _safe_get(p, "limit", ServerDefaultLimit)
        first == (pg - 1) * lim + 1
        last  == Min(pg * lim, n)
    IN  (data_key :> SubSeq(ServerItems(n), first, last))
        @@ [object |-> "list", data_ref |-> data_key, total |-> n]

\* a campaign as GET /v1/campaigns lists it
Campaign(i) ==
    [id |-> i, name |-> <<"campaign", i>>, campaign_type |-> "DISCOUNT_COUPONS",
     created_at |-> TsOf(i), active |-> TRUE]

\* the honest campaigns endpoint: page p[page] of p[limit] campaigns out of n
HonestCampaignsBody(p, n) ==
    LET pg    == _safe_get(p, page_param, 1)
        lim   == _safe_get(p, "limit", ServerDefaultLimit)
        first == (pg - 1) * lim + 1
        last  == Min(pg * lim, n)
    IN  ("campaigns" :> [i \in 1..(IF last >= first THEN last - first + 1 ELSE 0)
                           |-> Campaign(first + i - 1)])
        @@ [object |-> "list", data_ref |-> "campaigns", total |-> n]

\* what an arbitrary (possibly malformed) endpoint may answer: a page of
\* items without the cursor field, or one whose last item carries it, with a
\* value or with a falsy one, or one whose first item only carries it
PlainPage(n) == [i \in 1..n |-> [id |-> i]]

AnyPages(t) ==
    {PlainPage(n) : n \in 0..MaxPageLen}
    \cup (IF t = "timestamp"
          THEN {Append(PlainPage(n - 1), it) :
                   n \in 1..MaxPageLen, it \in {Item(1), [id |-> 1, created_at |-> 0]}}
               \cup {<<Item(1), [id |-> 2]>>}
          ELSE {})

\* bodies with and without the item array, has_more and more_starting_after;
\* a key the strategy never reads is left out
AnyBodies(t) ==
    LET d0 == {[object |-> "list"]}
              \cup {(data_key :> pg) @@ [object |-> "list"] : pg \in AnyPages(t)}
        d1 == IF t = "pages" THEN d0
              ELSE d0 \cup {("has_more" :> b) @@ d : b \in BOOLEAN, d \in d0}
    IN  IF t = "id"
        THEN d1 \cup {("more_starting_after" :> c) @@ d : c \in {1, 0}, d \in d1}
        ELSE d1

(***************************************************************************)
(* State of one invocation.                                                *)
(***************************************************************************)
VARIABLES
    tool,                 \* the function or handler invoked
    server,               \* "honest" or "any": how the endpoint answers
    T,                    \* number of items the honest endpoint holds
    limit, auto_paginate, max_items, base_params,      \* arguments
    params, all_items, has_more, more_starting_after,  \* locals of the loop
    total_fetched, data,
    pc,                   \* position of the invocation
    requests,             \* every request issued, in order
    error,                \* what the awaited call raised, or "none"
    result,               \* the value returned, or NoResult
    \* the tool handlers of server.py
    parent,               \* the fetched document: campaign, voucher, promotion_tier,
                          \* qualifications
    validation_rules,     \* the resolved rules of the document being enriched
    idx,                  \* position of the rule loop in the assignments' data
    ridx,                 \* position of get_best_deals in the redeemables' data
    redeemables,          \* the output list of get_best_deals
    received,             \* every response body received, in order
    tool_error,           \* TRUE once the handler has raised ToolError
    email, id,            \* the arguments of find_customer
    other                 \* a second invocation of _auto_paginate_timestamp
                          \* running beside this one: its locals, or NoOther

\* the variables of the handlers, which the pagination functions never touch
hvars == <<parent, validation_rules, idx, ridx, redeemables, received, tool_error>>

\* the arguments and locals of the pagination functions
plocals == <<server, T, limit, auto_paginate, max_items, base_params,
             params, all_items, has_more, more_starting_after, total_fetched,
             data>>

\* the arguments of find_customer
cargs == <<email, id>>

vars == <<tool, pc, requests, error, result, plocals, hvars, cargs, other>>

NoResult == [object |-> "none"]

NoData == [object |-> "none"]

\* no second invocation
NoOther == [pc |-> "none"]

\* an argument left out (None) or passed empty: `not email` holds for both
NoString == ""

\* the arguments find_customer may be called with
EmailArgs == {NoString, "john.doe@example.com"}

IdArgs == {NoString, "cust_1"}

Strategies == {"timestamp", "id", "pages"}

\* who runs the loop of _auto_paginate_pages: a direct call, or list_campaigns
PagesCallers == {"pages", "list_campaigns"}

ErrorTypes == {"http", "timeout", "connection", "unexpected"}

\* the base_params a caller may pass: filters, with or without a pagination key
BaseParamsOf(t) ==
    LET b == [order |-> "-created_at"]
    IN  {b, ("limit" :> 1) @@ b}
        \cup (IF t = "timestamp" THEN {("starting_after" :> TsOf(1)) @@ b} ELSE {})
        \cup (IF t = "id" THEN {("starting_after_id" :> 1) @@ b} ELSE {})
        \cup (IF t = "pages" THEN {(page_param :> 2) @@ b} ELSE {})

\* the bodies the endpoint may answer to request p
Responses(p) ==
    IF tool = "list_campaigns"
    THEN (IF server = "any" THEN AnyBodies("pages") ELSE {HonestCampaignsBody(p, T)})
    ELSE IF server = "any" THEN AnyBodies(tool)
    ELSE IF tool = "timestamp" THEN {HonestTimestampBody(p, T)}
    ELSE IF tool = "id" THEN {HonestIdBody(p, T)}
    ELSE {HonestPagesBody(p, T)}

Init ==
    /\ tool \in Strategies
    /\ server \in {"honest", "any"}
    /\ T \in 0..MaxT
    /\ server = "any" => T = 0
    /\ limit \in 1..MaxLimit
    /\ auto_paginate \in BOOLEAN
    /\ max_items \in {None} \cup 0..MaxItems
    /\ base_params \in BaseParamsOf(tool)
    /\ server = "any" => base_params = [order |-> "-created_at"]
    /\ params = base_params
    /\ all_items = <<>>
    /\ has_more = TRUE
    /\ more_starting_after = None
    /\ total_fetched = 0
    /\ data = NoData
    /\ pc = "call"
    /\ requests = <<>>
    /\ error = "none"
    /\ result = NoResult
    /\ parent = NoData
    /\ validation_rules = <<>>
    /\ idx = 0
    /\ ridx = 0
    /\ redeemables = <<>>
    /\ received = <<>>
    /\ tool_error = FALSE
    /\ email = NoString
    /\ id = NoString
    /\ other = NoOther

(***************************************************************************)
(* Pieces shared by the three loops.                                       *)
(***************************************************************************)
\* while has_more and (max_items is None or total_fetched < max_items)
LoopGuard == has_more /\ (max_items = None \/ total_fetched < max_items)

\* the model follows an arbitrary endpoint for MaxRequests requests only
WithinBound == server = "any" => Len(requests) < MaxRequests

\* the page appended whole
SliceToMax_None(items) == items

\* if max_items is not None: items = items[: max_items - total_fetched]
SliceToMax(items) ==
    IF max_items # None THEN PySlice(items, max_items - total_fetched) ELSE items

\* all_items.extend(items)
Extend_Replace(all, items) == items

Extend(all, items) == all \o items

\* the cursor read off the first item of the page instead of the last
LastCursor_First(items) == _safe_get(items[1], cursor_field, None)

\* last = items[-1]; more_starting_after = _safe_get(last, [cursor_field], None)
LastCursor(items) == _safe_get(items[Len(items)], cursor_field, None)

\* an envelope without data_ref
Envelope_NoRef(items, hm) ==
    ("has_more" :> hm) @@ (data_key :> items) @@ ("object" :> "list")

\* the list envelope all three strategies build
Envelope(items, hm) ==
    ("has_more" :> hm) @@ (data_key :> items) @@ ("data_ref" :> data_key)
    @@ ("object" :> "list")

(***************************************************************************)
(* async_make_voucherify_request: what the except clauses make of a        *)
(* failure of the request.                                                 *)
(***************************************************************************)
\* the classes (own and inherited) of the exceptions a request may raise
Bases(cls) ==
    IF cls \in {"ConnectTimeout", "ReadTimeout"}
    THEN {cls, "TimeoutException", "TransportError", "RequestError", "Exception"}
    ELSE IF cls = "ConnectError"
    THEN {cls, "NetworkError", "TransportError", "RequestError", "Exception"}
    ELSE IF cls = "ReadError"
    THEN {cls, "NetworkError", "TransportError", "RequestError", "Exception"}
    ELSE IF cls = "TooManyRedirects"
    THEN {cls, "RequestError", "Exception"}
    ELSE IF cls = "HTTPStatusError"
    THEN {cls, "HTTPError", "Exception"}
    ELSE {cls, "Exception"}

StatusCodes == {400, 404, 500}

\* the exceptions raised inside the try block: by client.request, by
\* raise_for_status (with the response's status and text), or by anything else
Failures ==
    {[cls |-> c, status_code |-> None, text |-> None] :
        c \in {"ConnectTimeout", "ReadTimeout", "ConnectError", "ReadError",
               "TooManyRedirects", "ValueError"}}
    \cup {[cls |-> "HTTPStatusError", status_code |-> s, text |-> "body"] :
             s \in StatusCodes}

IsInstance(exc, cls) == cls \in Bases(exc["cls"])

\* the escaping exception left as it is when no httpx clause matches
VoucherifyErrorOf_NoCatchAll(exc) ==
    IF IsInstance(exc, "TimeoutException")
    THEN [error_type |-> "timeout", status_code |-> None, response_text |-> None]
    ELSE IF IsInstance(exc, "ConnectError")
    THEN [error_type |-> "connection", status_code |-> None, response_text |-> None]
    ELSE IF IsInstance(exc, "HTTPStatusError")
    THEN [error_type |-> "http", status_code |-> exc["status_code"],
          response_text |-> exc["text"]]
    ELSE IF IsInstance(exc, "RequestError")
    THEN [error_type |-> "unexpected", status_code |-> None, response_text |-> None]
    ELSE [error_type |-> exc["cls"], status_code |-> None, response_text |-> None]

\* the VoucherifyError raised for exc: the first matching except clause, in
\* the order of the code
VoucherifyErrorOf(exc) ==
    IF IsInstance(exc, "TimeoutException")
    THEN [error_type |-> "timeout", status_code |-> None, response_text |-> None]
    ELSE IF IsInstance(exc, "ConnectError")
    THEN [error_type |-> "connection", status_code |-> None, response_text |-> None]
    ELSE IF IsInstance(exc, "HTTPStatusError")
    THEN [error_type |-> "http", status_code |-> exc["status_code"],
          response_text |-> exc["text"]]
    ELSE IF IsInstance(exc, "RequestError")
    THEN [error_type |-> "unexpected", status_code |-> None, response_text |-> None]
    ELSE [error_type |-> "unexpected", status_code |-> None, response_text |-> None]

\* the failure swallowed and the items fetched so far returned
RequestFails_Partial ==
    /\ pc \in {"await", "raw_await"}
    /\ \E exc \in Failures : error' = VoucherifyErrorOf(exc)["error_type"]
    /\ pc' = "exit"
    /\ UNCHANGED <<other, cargs, hvars, tool, server, T, limit, auto_paginate, max_items, base_params,
                   params, all_items, has_more, more_starting_after,
                   total_fetched, data, requests, result>>

\* async_make_voucherify_request raises VoucherifyError; no caller in
\* pagination.py catches it
RequestFails ==
    /\ tool \in Strategies
    /\ pc \in {"await", "raw_await"}
    /\ \E exc \in Failures : error' = VoucherifyErrorOf(exc)["error_type"]
    /\ pc' = "failed"
    /\ UNCHANGED <<other, cargs, hvars, tool, server, T, limit, auto_paginate, max_items, base_params,
                   params, all_items, has_more, more_starting_after,
                   total_fetched, data, requests, result>>

(***************************************************************************)
(* _auto_paginate_timestamp                                                *)
(***************************************************************************)
TimestampCall_KeepLimit ==
    /\ pc = "call" /\ tool = "timestamp"
    /\ all_items' = <<>>
    /\ has_more' = TRUE
    /\ more_starting_after' = None
    /\ params' = base_params
    /\ total_fetched' = 0
    /\ pc' = "loop"
    /\ UNCHANGED <<other, cargs, hvars, tool, server, T, limit, auto_paginate, max_items, base_params,
                   data, requests, error, result>>

TimestampCall ==
    /\ pc = "call" /\ tool = "timestamp"
    /\ all_items' = <<>>
    /\ has_more' = TRUE
    /\ more_starting_after' = None
    /\ params' = Put(base_params, "limit", limit)
    /\ total_fetched' = 0
    /\ pc' = "loop"
    /\ UNCHANGED <<other, cargs, hvars, tool, server, T, limit, auto_paginate, max_items, base_params,
                   data, requests, error, result>>

TimestampRequest ==
    /\ pc = "loop" /\ tool = "timestamp"
    /\ LoopGuard /\ WithinBound
    /\ requests' = Append(requests, params)
    /\ pc' = "await"
    /\ UNCHANGED <<other, cargs, hvars, tool, server, T, limit, auto_paginate, max_items, base_params,
                   params, all_items, has_more, more_starting_after,
                   total_fetched, data, error, result>>

\* TimestampPage without the auto_paginate test of the break
TimestampPage_Follow ==
    /\ pc = "await" /\ tool = "timestamp"
    /\ \E body \in Responses(params) :
        LET items == SliceToMax(_safe_get(body, data_key, <<>>))
            hm    == _safe_get(body, "has_more", FALSE)
        IN  /\ data' = body
            /\ all_items' = Extend(all_items, items)
            /\ total_fetched' = total_fetched + Len(items)
            /\ IF ~hm
               THEN /\ has_more' = hm
                    /\ pc' = "exit"
                    /\ UNCHANGED <<more_starting_after, params>>
               ELSE /\ pc' = "loop"
                    /\ IF items # <<>>
                       THEN /\ more_starting_after' = LastCursor(items)
                            /\ IF Truthy(LastCursor(items))
                               THEN /\ params' = Put(params, "starting_after", LastCursor(items))
                                    /\ has_more' = hm
                               ELSE /\ has_more' = FALSE
                                    /\ UNCHANGED params
                       ELSE /\ has_more' = FALSE
                            /\ UNCHANGED <<more_starting_after, params>>
    /\ UNCHANGED <<other, cargs, hvars, tool, server, T, limit, auto_paginate, max_items, base_params,
                   requests, error, result>>

\* TimestampPage without the `else: has_more = False` of a missing cursor
TimestampPage_KeepMore ==
    /\ pc = "await" /\ tool = "timestamp"
    /\ \E body \in Responses(params) :
        LET items == SliceToMax(_safe_get(body, data_key, <<>>))
            hm    == _safe_get(body, "has_more", FALSE)
        IN  /\ data' = body
            /\ all_items' = Extend(all_items, items)
            /\ total_fetched' = total_fetched + Len(items)
            /\ IF ~hm \/ ~auto_paginate
               THEN /\ has_more' = hm
                    /\ pc' = "exit"
                    /\ UNCHANGED <<more_starting_after, params>>
               ELSE /\ pc' = "loop"
                    /\ IF items # <<>>
                       THEN /\ more_starting_after' = LastCursor(items)
                            /\ IF Truthy(LastCursor(items))
                               THEN /\ params' = Put(params, "starting_after", LastCursor(items))
                                    /\ has_more' = hm
                               ELSE /\ has_more' = hm
                                    /\ UNCHANGED params
                       ELSE /\ has_more' = FALSE
                            /\ UNCHANGED <<more_starting_after, params>>
    /\ UNCHANGED <<other, cargs, hvars, tool, server, T, limit, auto_paginate, max_items, base_params,
                   requests, error, result>>

TimestampPage ==
    /\ pc = "await" /\ tool = "timestamp"
    /\ \E body \in Responses(params) :
        LET items == SliceToMax(_safe_get(body, data_key, <<>>))
            hm    == _safe_get(body, "has_more", FALSE)
        IN  /\ data' = body
            /\ all_items' = Extend(all_items, items)
            /\ total_fetched' = total_fetched + Len(items)
            /\ IF ~hm \/ ~auto_paginate
               THEN /\ has_more' = hm
                    /\ pc' = "exit"
                    /\ UNCHANGED <<more_starting_after, params>>
               ELSE /\ pc' = "loop"
                    /\ IF items # <<>>
                       THEN /\ more_starting_after' = LastCursor(items)
                            /\ IF Truthy(LastCursor(items))
                               THEN /\ params' = Put(params, "starting_after", LastCursor(items))
                                    /\ has_more' = hm
                               ELSE /\ has_more' = FALSE
                                    /\ UNCHANGED params
                       ELSE /\ has_more' = FALSE
                            /\ UNCHANGED <<more_starting_after, params>>
    /\ UNCHANGED <<other, cargs, hvars, tool, server, T, limit, auto_paginate, max_items, base_params,
                   requests, error, result>>

\* the cursor attached whenever one was read, whatever has_more says
TimestampResult_NoGuard(items, hm, msa) ==
    IF Truthy(msa)
    THEN ("more_starting_after" :> msa) @@ Envelope(items, hm)
    ELSE Envelope(items, hm)

\* result = {...}; if has_more and more_starting_after: result[...] = ...
TimestampResult(items, hm, msa) ==
    IF hm /\ Truthy(msa)
    THEN ("more_starting_after" :> msa) @@ Envelope(items, hm)
    ELSE Envelope(items, hm)

TimestampReturn ==
    /\ tool = "timestamp"
    /\ pc = "exit" \/ (pc = "loop" /\ ~LoopGuard)
    /\ result' = TimestampResult(all_items, has_more, more_starting_after)
    /\ pc' = "done"
    /\ UNCHANGED <<other, cargs, hvars, tool, server, T, limit, auto_paginate, max_items, base_params,
                   params, all_items, has_more, more_starting_after,
                   total_fetched, data, requests, error>>

(***************************************************************************)
(* _auto_paginate_id                                                       *)
(***************************************************************************)
IdCall ==
    /\ pc = "call" /\ tool = "id"
    /\ all_items' = <<>>
    /\ has_more' = TRUE
    /\ params' = Put(base_params, "limit", limit)
    /\ total_fetched' = 0
    /\ pc' = "loop"
    /\ UNCHANGED <<other, cargs, hvars, tool, server, T, limit, auto_paginate, max_items, base_params,
                   more_starting_after, data, requests, error, result>>

IdRequest ==
    /\ pc = "loop" /\ tool = "id"
    /\ LoopGuard /\ WithinBound
    /\ requests' = Append(requests, params)
    /\ pc' = "await"
    /\ UNCHANGED <<other, cargs, hvars, tool, server, T, limit, auto_paginate, max_items, base_params,
                   params, all_items, has_more, more_starting_after,
                   total_fetched, data, error, result>>

\* IdPage without the `else: has_more = False` of a missing cursor
IdPage_KeepMore ==
    /\ pc = "await" /\ tool = "id"
    /\ \E body \in Responses(params) :
        LET items  == SliceToMax(_safe_get(body, data_key, <<>>))
            hm     == _safe_get(body, "has_more", FALSE)
            cursor == _safe_get(body, "more_starting_after", None)
        IN  /\ data' = body
            /\ all_items' = Extend(all_items, items)
            /\ total_fetched' = total_fetched + Len(items)
            /\ has_more' = hm
            /\ IF ~hm \/ ~auto_paginate
               THEN /\ pc' = "exit"
                    /\ UNCHANGED params
               ELSE /\ pc' = "loop"
                    /\ IF Truthy(cursor)
                       THEN params' = Put(params, "starting_after_id", cursor)
                       ELSE UNCHANGED params
    /\ UNCHANGED <<other, cargs, hvars, tool, server, T, limit, auto_paginate, max_items, base_params,
                   more_starting_after, requests, error, result>>

\* the cursor taken from the last item instead of the body
IdPage_FromItem ==
    /\ pc = "await" /\ tool = "id"
    /\ \E body \in Responses(params) :
        LET items  == SliceToMax(_safe_get(body, data_key, <<>>))
            hm     == _safe_get(body, "has_more", FALSE)
            cursor == IF items # <<>> /\ _safe_get(body, "has_more", FALSE)
                      THEN items[Len(items)]["id"] ELSE None
        IN  /\ data' = body
            /\ all_items' = Extend(all_items, items)
            /\ total_fetched' = total_fetched + Len(items)
            /\ IF ~hm \/ ~auto_paginate
               THEN /\ has_more' = hm
                    /\ pc' = "exit"
                    /\ UNCHANGED params
               ELSE /\ pc' = "loop"
                    /\ IF Truthy(cursor)
                       THEN /\ params' = Put(params, "starting_after_id", cursor)
                            /\ has_more' = hm
                       ELSE /\ has_more' = FALSE
                            /\ UNCHANGED params
    /\ UNCHANGED <<other, cargs, hvars, tool, server, T, limit, auto_paginate, max_items, base_params,
                   more_starting_after, requests, error, result>>

IdPage ==
    /\ pc = "await" /\ tool = "id"
    /\ \E body \in Responses(params) :
        LET items  == SliceToMax(_safe_get(body, data_key, <<>>))
            hm     == _safe_get(body, "has_more", FALSE)
            cursor == _safe_get(body, "more_starting_after", None)
        IN  /\ data' = body
            /\ all_items' = Extend(all_items, items)
            /\ total_fetched' = total_fetched + Len(items)
            /\ IF ~hm \/ ~auto_paginate
               THEN /\ has_more' = hm
                    /\ pc' = "exit"
                    /\ UNCHANGED params
               ELSE /\ pc' = "loop"
                    /\ IF Truthy(cursor)
                       THEN /\ params' = Put(params, "starting_after_id", cursor)
                            /\ has_more' = hm
                       ELSE /\ has_more' = FALSE
                            /\ UNCHANGED params
    /\ UNCHANGED <<other, cargs, hvars, tool, server, T, limit, auto_paginate, max_items, base_params,
                   more_starting_after, requests, error, result>>

\* result = {...}; if has_more and params.get("starting_after_id"): ...
IdResult(items, hm, p) ==
    IF hm /\ Truthy(_safe_get(p, "starting_after_id", None))
    THEN ("more_starting_after" :> p["starting_after_id"]) @@ Envelope(items, hm)
    ELSE Envelope(items, hm)

IdReturn ==
    /\ tool = "id"
    /\ pc = "exit" \/ (pc = "loop" /\ ~LoopGuard)
    /\ result' = IdResult(all_items, has_more, params)
    /\ pc' = "done"
    /\ UNCHANGED <<other, cargs, hvars, tool, server, T, limit, auto_paginate, max_items, base_params,
                   params, all_items, has_more, more_starting_after,
                   total_fetched, data, requests, error>>

(***************************************************************************)
(* _auto_paginate_pages                                                    *)
(***************************************************************************)
\* auto_paginate false: one request with base_params
PagesRawRequest ==
    /\ pc = "call" /\ tool = "pages" /\ ~auto_paginate
    /\ requests' = Append(requests, base_params)
    /\ pc' = "raw_await"
    /\ UNCHANGED <<other, cargs, hvars, tool, server, T, limit, auto_paginate, max_items, base_params,
                   params, all_items, has_more, more_starting_after,
                   total_fetched, data, error, result>>

\* return response.json()
PagesRawReturn ==
    /\ pc = "raw_await" /\ tool = "pages"
    /\ \E body \in Responses(base_params) : result' = body
    /\ pc' = "done"
    /\ UNCHANGED <<other, cargs, hvars, tool, server, T, limit, auto_paginate, max_items, base_params,
                   params, all_items, has_more, more_starting_after,
                   total_fetched, data, requests, error>>

\* current_page = params.get(page_param) or 1
FirstPage(p) ==
    IF Truthy(_safe_get(p, page_param, None)) THEN p[page_param] ELSE 1

PagesCall ==
    /\ pc = "call" /\ tool \in PagesCallers /\ auto_paginate
    /\ all_items' = <<>>
    /\ has_more' = TRUE
    /\ params' = Put(Put(base_params, "limit", limit), page_param, FirstPage(base_params))
    /\ total_fetched' = 0
    /\ pc' = "loop"
    /\ UNCHANGED <<other, cargs, hvars, tool, server, T, limit, auto_paginate, max_items, base_params,
                   more_starting_after, data, requests, error, result>>

PagesRequest ==
    /\ pc = "loop" /\ tool \in PagesCallers
    /\ LoopGuard /\ WithinBound
    /\ requests' = Append(requests, params)
    /\ pc' = "await"
    /\ UNCHANGED <<other, cargs, hvars, tool, server, T, limit, auto_paginate, max_items, base_params,
                   params, all_items, has_more, more_starting_after,
                   total_fetched, data, error, result>>

\* what the loop does once the page's items are appended
\* "last": fewer items than limit; "capped": max_items reached; "next": go on
\* the loop left after its first page, full or not
PagesVerdict_SinglePage(items, fetched) ==
    IF Len(items) < limit THEN "last" ELSE "capped"

PagesVerdict_Inclusive(items, fetched) ==
    IF Len(items) <= limit THEN "last"
    ELSE IF max_items # None /\ fetched >= max_items THEN "capped"
    ELSE "next"

PagesVerdict(items, fetched) ==
    IF Len(items) < limit THEN "last"
    ELSE IF max_items # None /\ fetched >= max_items THEN "capped"
    ELSE "next"

PagesPage ==
    /\ pc = "await" /\ tool \in PagesCallers
    /\ \E body \in Responses(params) :
        LET raw   == _safe_get(body, data_key, <<>>)
            items == SliceToMax(raw)
            v     == PagesVerdict(items, total_fetched + Len(items))
        IN  /\ data' = body
            /\ IF raw = <<>>
               THEN /\ has_more' = FALSE
                    /\ pc' = "exit"
                    /\ UNCHANGED <<all_items, total_fetched, params>>
               ELSE /\ all_items' = Extend(all_items, items)
                    /\ total_fetched' = total_fetched + Len(items)
                    /\ IF v = "last"
                       THEN has_more' = FALSE /\ pc' = "exit" /\ UNCHANGED params
                       ELSE IF v = "capped"
                       THEN has_more' = TRUE /\ pc' = "exit" /\ UNCHANGED params
                       ELSE /\ params' = Put(params, page_param, params[page_param] + 1)
                            /\ pc' = "loop"
                            /\ UNCHANGED has_more
    /\ UNCHANGED <<other, cargs, hvars, tool, server, T, limit, auto_paginate, max_items, base_params,
                   more_starting_after, requests, error, result>>

PagesReturn ==
    /\ tool = "pages"
    /\ pc = "exit" \/ (pc = "loop" /\ ~LoopGuard)
    /\ result' = Envelope(all_items, has_more)
    /\ pc' = "done"
    /\ UNCHANGED <<other, cargs, hvars, tool, server, T, limit, auto_paginate, max_items, base_params,
                   params, all_items, has_more, more_starting_after,
                   total_fetched, data, requests, error>>

Next ==
    \/ TimestampCall \/ TimestampRequest \/ TimestampPage \/ TimestampReturn
    \/ IdCall \/ IdRequest \/ IdPage \/ IdReturn
    \/ PagesRawRequest \/ PagesRawReturn
    \/ PagesCall \/ PagesRequest \/ PagesPage \/ PagesReturn
    \/ RequestFails

Spec == Init /\ [][Next]_vars

(***************************************************************************)
(* The tool handlers that enrich a document with its validation rules:     *)
(* get_campaign, get_voucher, get_promotion_tier and get_best_deals.       *)
(***************************************************************************)
Handlers == {"get_campaign", "get_voucher", "get_promotion_tier"}

AllHandlers == Handlers \cup {"get_best_deals"}

\* the name of the assignments field each handler reads
AssignmentsField(h) ==
    IF h = "get_promotion_tier" THEN "validation_rule_assignments"
    ELSE "validation_rules_assignments"

ParentEndpoint(h) ==
    IF h = "get_campaign" THEN "/v1/campaigns/"
    ELSE IF h = "get_voucher" THEN "/v1/vouchers/"
    ELSE "/v1/promotions/tiers/"

RuleEndpoint == "/v1/validation-rules/"

\* async_make_voucherify_request("GET", f"{endpoint}{id}", ctx=ctx)
GetRequest(endpoint, ident) == [method |-> "GET", endpoint |-> endpoint, id |-> ident]

\* json.dumps(doc, indent=2)
Dumps(doc) == [json |-> doc]

\* del d[k]
Del(d, k) == [x \in (DOMAIN d) \ {k} |-> d[x]]

(***************************************************************************)
(* What the remote API may answer to the handlers.                         *)
(***************************************************************************)
RuleIds == {"r1", "r2"}

\* the n-th response of the API when it is validation rule r, and a body
\* that lacks two of the fields
RuleBodies(r, n) ==
    {[id |-> r, name |-> "rule", rules |-> <<r, n, "rules">>,
      bundle_rules |-> <<r, n, "bundle">>, applicable_to |-> <<r, n, "to">>],
     [id |-> r, name |-> "rule", rules |-> <<r, n, "rules">>]}

FullEntry(r) ==
    [rule_id |-> r, validation_status |-> <<"status", r>>,
     validation_omitted_rules |-> <<"omitted", r>>]

\* assignment entries, with and without the two status fields
AssignmentEntries == {FullEntry(r) : r \in RuleIds} \cup {[rule_id |-> "r1"]}

AssignmentLists == UNION {[1..n -> AssignmentEntries] : n \in 0..MaxRules}

\* the total an assignments object may claim: none, or a positive one
Totals(d) == {0, Max(1, Len(d))}

\* {total, data}, and the same without total
AssignmentsValues ==
    {[total |-> t, data |-> d] : t \in 0..MaxRules, d \in AssignmentLists}
    \cup {[data |-> d] : d \in AssignmentLists}

\* a campaign, voucher or promotion tier
ParentDocs(h) ==
    LET doc == [id |-> "p1", name |-> "parent"]
    IN  {doc} \cup {(AssignmentsField(h) :> a) @@ doc : a \in AssignmentsValues}

\* the redeemables of a qualification
\* lists of entries that carry the status fields, and one of an entry without
BestDealLists ==
    {[i \in 1..n |-> FullEntry("r1")] : n \in 0..MaxRules} \cup {<<[rule_id |-> "r2"]>>}

RedeemableDocs ==
    LET doc == [id |-> "p1", object |-> "promotion_tier", result |-> "APPLICABLE",
                name |-> "deal", order |-> "order"]
    IN  {doc} \cup UNION {{("validation_rules_assignments" :> [total |-> t, data |-> d]) @@ doc
                                : t \in Totals(d)} : d \in BestDealLists}

RedeemableLists == UNION {[1..n -> RedeemableDocs] : n \in 0..MaxRedeemables}

QualificationBodies ==
    UNION {{[redeemables |-> [total |-> t, data |-> d]] : t \in Totals(d)}
              : d \in RedeemableLists}

InitRules ==
    /\ tool \in AllHandlers \cup {"find_customer"}
    /\ server = "any"
    /\ T = 0
    /\ limit = 1
    /\ auto_paginate = FALSE
    /\ max_items = None
    /\ base_params = NoData
    /\ params = NoData
    /\ all_items = <<>>
    /\ has_more = TRUE
    /\ more_starting_after = None
    /\ total_fetched = 0
    /\ data = NoData
    /\ pc = "call"
    /\ requests = <<>>
    /\ error = "none"
    /\ result = NoResult
    /\ parent = NoData
    /\ validation_rules = <<>>
    /\ idx = 0
    /\ ridx = 0
    /\ redeemables = <<>>
    /\ received = <<>>
    /\ tool_error = FALSE
    /\ email \in (IF tool = "find_customer" THEN EmailArgs ELSE {NoString})
    /\ id \in (IF tool = "find_customer" THEN IdArgs ELSE {NoString})
    /\ other = NoOther

(***************************************************************************)
(* Pieces shared by the four handlers.                                     *)
(***************************************************************************)
\* val_rule["rules"], val_rule["bundle_rules"], val_rule["applicable_to"]
\* raise KeyError when the key is missing
HasRuleKeys(val_rule) == {"rules", "bundle_rules", "applicable_to"} \subseteq DOMAIN val_rule

\* the rule's name kept in the entry
NormalizedRule_WithName(val_rule) ==
    [rules |-> val_rule["rules"],
     bundle_rules |-> val_rule["bundle_rules"],
     applicable_to |-> val_rule["applicable_to"],
     name |-> val_rule["name"]]

NormalizedRule(val_rule) ==
    [rules |-> val_rule["rules"],
     bundle_rules |-> val_rule["bundle_rules"],
     applicable_to |-> val_rule["applicable_to"]]

\* every fetch made for the first assignment's rule
RuleIdAt_First(assignments, i) == assignments["data"][1]["rule_id"]

\* rule['rule_id'] of the idx-th assignment
RuleIdAt(assignments, i) == assignments["data"][i]["rule_id"]

\* except Exception as e: raise map_voucherify_error_to_tool_error(e, ...)
RaiseToolError(e) ==
    /\ error' = e
    /\ tool_error' = TRUE
    /\ pc' = "failed"

\* a failed rule fetch skipped and the loop carried on
HandlerRequestFails_Skip ==
    /\ tool \in AllHandlers
    /\ pc \in {"parent_await", "rule_await"}
    /\ \E exc \in Failures : error' = VoucherifyErrorOf(exc)["error_type"]
    /\ IF pc = "rule_await"
       THEN pc' = "rules" /\ idx' = idx + 1 /\ UNCHANGED tool_error
       ELSE pc' = "failed" /\ tool_error' = TRUE /\ UNCHANGED idx
    /\ UNCHANGED <<other, cargs, tool, requests, result, plocals, parent, validation_rules,
                   ridx, redeemables, received>>

\* the awaited request raises VoucherifyError; the handler's except clause
\* turns it into a ToolError
HandlerRequestFails ==
    /\ tool \in AllHandlers
    /\ pc \in {"parent_await", "rule_await"}
    /\ \E exc \in Failures : RaiseToolError(VoucherifyErrorOf(exc)["error_type"])
    /\ UNCHANGED <<other, cargs, tool, requests, result, plocals, parent, validation_rules,
                   idx, ridx, redeemables, received>>

(***************************************************************************)
(* get_campaign, get_voucher, get_promotion_tier                           *)
(***************************************************************************)
HandlerCall(h) ==
    /\ pc = "call" /\ tool = h
    /\ requests' = Append(requests, GetRequest(ParentEndpoint(h), "p1"))
    /\ pc' = "parent_await"
    /\ UNCHANGED <<other, cargs, tool, error, result, plocals, hvars>>

\* "<field>" in doc and doc["<field>"]["total"] > 0
HasAssignedRules(doc, f) == f \in DOMAIN doc /\ doc[f]["total"] > 0

HandlerParent(h) ==
    /\ pc = "parent_await" /\ tool = h
    /\ \E body \in ParentDocs(h) :
        LET f == AssignmentsField(h)
        IN  /\ parent' = body
            /\ received' = Append(received, body)
            /\ IF f \in DOMAIN body /\ "total" \notin DOMAIN body[f]
               THEN /\ RaiseToolError("KeyError")
                    /\ UNCHANGED <<result, validation_rules, idx>>
               ELSE IF HasAssignedRules(body, f)
               THEN /\ validation_rules' = <<>>
                    /\ idx' = 1
                    /\ pc' = "rules"
                    /\ UNCHANGED <<result, error, tool_error>>
               ELSE /\ result' = Dumps(body)
                    /\ pc' = "done"
                    /\ UNCHANGED <<validation_rules, idx, error, tool_error>>
    /\ UNCHANGED <<other, cargs, tool, requests, plocals, ridx, redeemables>>

\* the rule fetches of all assignments issued at once
HandlerRuleRequest_FanOut(h) ==
    /\ pc = "rules" /\ tool = h
    /\ idx <= Len(parent[AssignmentsField(h)]["data"])
    /\ requests' = requests \o
                      [i \in 1..(Len(parent[AssignmentsField(h)]["data"]) - idx + 1) |->
                         GetRequest(RuleEndpoint,
                                    RuleIdAt(parent[AssignmentsField(h)], idx + i - 1))]
    /\ pc' = "rule_await"
    /\ UNCHANGED <<other, cargs, tool, error, result, plocals, hvars>>

HandlerRuleRequest(h) ==
    /\ pc = "rules" /\ tool = h
    /\ idx <= Len(parent[AssignmentsField(h)]["data"])
    /\ requests' = Append(requests,
                          GetRequest(RuleEndpoint, RuleIdAt(parent[AssignmentsField(h)], idx)))
    /\ pc' = "rule_await"
    /\ UNCHANGED <<other, cargs, tool, error, result, plocals, hvars>>

HandlerRuleResponse(h) ==
    /\ pc = "rule_await" /\ tool = h
    /\ \E val_rule \in RuleBodies(requests[Len(requests)]["id"], Len(received) + 1) :
        /\ received' = Append(received, val_rule)
        /\ IF HasRuleKeys(val_rule)
           THEN /\ validation_rules' = Append(validation_rules, NormalizedRule(val_rule))
                /\ idx' = idx + 1
                /\ pc' = "rules"
                /\ UNCHANGED <<error, tool_error>>
           ELSE /\ RaiseToolError("KeyError")
                /\ UNCHANGED <<validation_rules, idx>>
    /\ UNCHANGED <<other, cargs, tool, requests, result, plocals, parent, ridx, redeemables>>

\* del doc["<field>"]; doc["assigned_validation_rules"] = validation_rules;
\* return json.dumps(doc, indent=2)
HandlerSplice(h) ==
    /\ pc = "rules" /\ tool = h
    /\ idx > Len(parent[AssignmentsField(h)]["data"])
    /\ parent' = Put(Del(parent, AssignmentsField(h)), "assigned_validation_rules",
                     validation_rules)
    /\ result' = Dumps(parent')
    /\ pc' = "done"
    /\ UNCHANGED <<other, cargs, tool, requests, error, plocals, validation_rules, idx, ridx,
                   redeemables, received, tool_error>>

(***************************************************************************)
(* get_best_deals                                                          *)
(***************************************************************************)
BestDealsCall ==
    /\ pc = "call" /\ tool = "get_best_deals"
    /\ requests' = Append(requests,
                          [method |-> "POST", endpoint |-> "/v1/qualifications", id |-> ""])
    /\ pc' = "parent_await"
    /\ UNCHANGED <<other, cargs, tool, error, result, plocals, hvars>>

BestDealsQualifications ==
    /\ pc = "parent_await" /\ tool = "get_best_deals"
    /\ \E qualifications \in QualificationBodies :
        /\ parent' = qualifications
        /\ received' = Append(received, qualifications)
        /\ IF qualifications["redeemables"]["total"] = 0
           THEN /\ result' = Dumps(<<>>)
                /\ pc' = "done"
                /\ UNCHANGED <<redeemables, ridx, idx, validation_rules>>
           ELSE /\ redeemables' = <<>>
                /\ ridx' = 1
                /\ idx' = 1
                /\ validation_rules' = <<>>
                /\ pc' = "rules"
                /\ UNCHANGED result
    /\ UNCHANGED <<other, cargs, tool, requests, error, plocals, tool_error>>

\* the redeemable the outer loop is at
Redeemable == parent["redeemables"]["data"][ridx]

\* if "validation_rules_assignments" in redeemable
BestDealsHasRules(redeemable) == "validation_rules_assignments" \in DOMAIN redeemable

\* the rule loop of the current redeemable has an assignment left
BestDealsRuleLeft ==
    /\ ridx <= Len(parent["redeemables"]["data"])
    /\ BestDealsHasRules(Redeemable)
    /\ idx <= Len(Redeemable["validation_rules_assignments"]["data"])

BestDealsRuleRequest ==
    /\ pc = "rules" /\ tool = "get_best_deals"
    /\ BestDealsRuleLeft
    /\ requests' = Append(requests,
                          GetRequest(RuleEndpoint,
                                     RuleIdAt(Redeemable["validation_rules_assignments"], idx)))
    /\ pc' = "rule_await"
    /\ UNCHANGED <<other, cargs, tool, error, result, plocals, hvars>>

BestDealsRuleResponse ==
    /\ pc = "rule_await" /\ tool = "get_best_deals"
    /\ \E val_rule \in RuleBodies(requests[Len(requests)]["id"], Len(received) + 1) :
        LET rule == Redeemable["validation_rules_assignments"]["data"][idx]
        IN  /\ received' = Append(received, val_rule)
            /\ IF /\ HasRuleKeys(val_rule)
                  /\ {"validation_status", "validation_omitted_rules"} \subseteq DOMAIN rule
               THEN /\ validation_rules' =
                         Append(validation_rules,
                                [validation_rules_definition |-> NormalizedRule(val_rule),
                                 validation_status |-> rule["validation_status"],
                                 validation_omitted_sub_rules |-> rule["validation_omitted_rules"]])
                    /\ idx' = idx + 1
                    /\ pc' = "rules"
                    /\ UNCHANGED <<error, tool_error>>
               ELSE /\ RaiseToolError("KeyError")
                    /\ UNCHANGED <<validation_rules, idx>>
    /\ UNCHANGED <<other, cargs, tool, requests, result, plocals, parent, ridx, redeemables>>

\* the entry get_best_deals returns for a redeemable
BestDeal(redeemable, rules) ==
    [id |-> redeemable["id"],
     object |-> redeemable["object"],
     result |-> redeemable["result"],
     redeemable_details |->
        [public_banner |-> _safe_get(redeemable, "banner", "None"),
         alternative_description |-> _safe_get(redeemable, "name", "None"),
         campaign_name |-> _safe_get(redeemable, "campaign_name", "None")],
     resolved_order |-> redeemable["order"],
     validation_rules |-> rules]

\* redeemables.append({...}) and on to the next redeemable
BestDealsAppend ==
    /\ pc = "rules" /\ tool = "get_best_deals"
    /\ ridx <= Len(parent["redeemables"]["data"])
    /\ ~BestDealsRuleLeft
    /\ redeemables' = Append(redeemables, BestDeal(Redeemable, validation_rules))
    /\ ridx' = ridx + 1
    /\ idx' = 1
    /\ validation_rules' = <<>>
    /\ UNCHANGED <<other, cargs, tool, pc, requests, error, result, plocals, parent, received,
                   tool_error>>

BestDealsReturn ==
    /\ pc = "rules" /\ tool = "get_best_deals"
    /\ ridx > Len(parent["redeemables"]["data"])
    /\ result' = Dumps(redeemables)
    /\ pc' = "done"
    /\ UNCHANGED <<other, cargs, tool, requests, error, plocals, hvars>>

(***************************************************************************)
(* find_customer                                                           *)
(***************************************************************************)
\* what GET /v1/customers/{id} may answer
CustomerBodies == {[id |-> "cust_1", email |-> "john.doe@example.com"],
                   [id |-> "cust_1"]}

\* what GET /v1/customers may answer: a list of up to MaxCustomers matches,
\* or a body without the list
CustomerLists ==
    {[object |-> "list"]}
    \cup {("customers" :> [i \in 1..n |-> [id |-> <<"cust", i>>, email |-> "john.doe@example.com"]])
             @@ [object |-> "list"] : n \in 0..MaxCustomers}

\* params = {"limit": 1, "email": email}
EmailLookup(e) ==
    [method |-> "GET", endpoint |-> "/v1/customers",
     params |-> [limit |-> 1, email |-> e]]

\* the checks and the request of find_customer
FindCustomerCall ==
    /\ pc = "call" /\ tool = "find_customer"
    /\ IF email = NoString /\ id = NoString
       THEN /\ RaiseToolError("ToolError")
            /\ UNCHANGED requests
       ELSE IF id # NoString
       THEN /\ requests' = Append(requests, GetRequest("/v1/customers/{id}", id))
            /\ pc' = "customer_await"
            /\ UNCHANGED <<error, tool_error>>
       ELSE /\ requests' = Append(requests, EmailLookup(email))
            /\ pc' = "list_await"
            /\ UNCHANGED <<error, tool_error>>
    /\ UNCHANGED <<other, cargs, tool, result, plocals, parent, validation_rules, idx, ridx,
                   redeemables, received>>

\* return json.dumps(resp.json(), indent=2)
FindCustomerById ==
    /\ pc = "customer_await" /\ tool = "find_customer"
    /\ \E body \in CustomerBodies :
        /\ received' = Append(received, body)
        /\ result' = Dumps(body)
    /\ pc' = "done"
    /\ UNCHANGED <<other, cargs, tool, requests, error, plocals, parent, validation_rules,
                   idx, ridx, redeemables, tool_error>>

\* customers = _safe_get(data, ["customers"], []) or []; the first match, or
\* ToolError when there is none
FindCustomerByEmail ==
    /\ pc = "list_await" /\ tool = "find_customer"
    /\ \E body \in CustomerLists :
        LET customers == _safe_get(body, "customers", <<>>)
        IN  /\ received' = Append(received, body)
            /\ IF customers = <<>>
               THEN /\ RaiseToolError("ToolError")
                    /\ UNCHANGED result
               ELSE /\ result' = Dumps(customers[1])
                    /\ pc' = "done"
                    /\ UNCHANGED <<error, tool_error>>
    /\ UNCHANGED <<other, cargs, tool, requests, plocals, parent, validation_rules,
                   idx, ridx, redeemables>>

\* the awaited request raises VoucherifyError; the except clause turns it
\* into a ToolError
FindCustomerRequestFails ==
    /\ tool = "find_customer"
    /\ pc \in {"customer_await", "list_await"}
    /\ \E exc \in Failures : RaiseToolError(VoucherifyErrorOf(exc)["error_type"])
    /\ UNCHANGED <<other, cargs, tool, requests, result, plocals, parent, validation_rules,
                   idx, ridx, redeemables, received>>

NextRules ==
    \/ \E h \in Handlers :
        \/ HandlerCall(h) \/ HandlerParent(h) \/ HandlerRuleRequest(h)
        \/ HandlerRuleResponse(h) \/ HandlerSplice(h)
    \/ BestDealsCall \/ BestDealsQualifications \/ BestDealsRuleRequest
    \/ BestDealsRuleResponse \/ BestDealsAppend \/ BestDealsReturn
    \/ HandlerRequestFails
    \/ FindCustomerCall \/ FindCustomerById \/ FindCustomerByEmail
    \/ FindCustomerRequestFails

SpecRules == InitRules /\ [][NextRules]_vars

(***************************************************************************)
(* list_campaigns                                                          *)
(***************************************************************************)
\* limit = 100 and max_items = 1000 in the call of _auto_paginate_pages
ListLimit == 100

ListMaxItems == 1000

\* how many campaigns the account holds in the runs explored
CampaignCounts ==
    {0, ListLimit - 1, ListLimit, ListLimit + 1, ListMaxItems, ListMaxItems + 1}

\* base_params = {}
EmptyDict == [k \in {} |-> None]

InitList ==
    /\ tool = "list_campaigns"
    /\ server \in {"honest", "any"}
    /\ T \in CampaignCounts
    /\ server = "any" => T = 0
    /\ limit = ListLimit
    /\ auto_paginate = TRUE
    /\ max_items = ListMaxItems
    /\ base_params = EmptyDict
    /\ params = base_params
    /\ all_items = <<>>
    /\ has_more = TRUE
    /\ more_starting_after = None
    /\ total_fetched = 0
    /\ data = NoData
    /\ pc = "call"
    /\ requests = <<>>
    /\ error = "none"
    /\ result = NoResult
    /\ parent = NoData
    /\ validation_rules = <<>>
    /\ idx = 0
    /\ ridx = 0
    /\ redeemables = <<>>
    /\ received = <<>>
    /\ tool_error = FALSE
    /\ email = NoString
    /\ id = NoString
    /\ other = NoOther

CampaignKeys == {"id", "name", "campaign_type", "created_at"}

\* {"id": campaign["id"], "name": ..., "campaign_type": ..., "created_at": ...}
CampaignSummary(campaign) == [k \in CampaignKeys |-> campaign[k]]

\* _auto_paginate_pages returns its envelope; the campaigns are cut down to
\* four fields and returned, a campaign lacking one raises KeyError
ListCampaignsReturn ==
    /\ tool = "list_campaigns"
    /\ pc = "exit" \/ (pc = "loop" /\ ~LoopGuard)
    /\ LET campaigns == Envelope(all_items, has_more)[data_key]
       IN  IF \A i \in 1..Len(campaigns) : CampaignKeys \subseteq DOMAIN campaigns[i]
           THEN /\ result' = Dumps([i \in 1..Len(campaigns) |-> CampaignSummary(campaigns[i])])
                /\ pc' = "done"
                /\ UNCHANGED <<error, tool_error>>
           ELSE /\ RaiseToolError("KeyError")
                /\ UNCHANGED result
    /\ UNCHANGED <<other, cargs, tool, requests, plocals, parent, validation_rules,
                   idx, ridx, redeemables, received>>

\* a page request raises VoucherifyError inside _auto_paginate_pages; the
\* except clause of list_campaigns turns it into a ToolError
ListCampaignsRequestFails ==
    /\ tool = "list_campaigns"
    /\ pc = "await"
    /\ \E exc \in Failures : RaiseToolError(VoucherifyErrorOf(exc)["error_type"])
    /\ UNCHANGED <<other, cargs, tool, requests, result, plocals, parent, validation_rules,
                   idx, ridx, redeemables, received>>

NextList ==
    \/ PagesCall \/ PagesRequest \/ PagesPage
    \/ ListCampaignsReturn \/ ListCampaignsRequestFails

SpecList == InitList /\ [][NextList]_vars

(***************************************************************************)
(* Two invocations of _auto_paginate_timestamp interleaved at their        *)
(* awaits. Both are given the same base_params mapping and the same        *)
(* endpoint; the second has its own limit and its own locals, kept in the  *)
(* record `other`.                                                         *)
(***************************************************************************)
\* the second invocation before its first statement
OtherStart(lim) ==
    [pc |-> "call", limit |-> lim, params |-> NoData, all_items |-> <<>>,
     has_more |-> TRUE, more_starting_after |-> None, total_fetched |-> 0,
     requests |-> <<>>, error |-> "none", result |-> NoResult]

InitPair ==
    /\ tool = "timestamp"
    /\ server = "honest"
    /\ T \in 0..MaxT
    /\ limit \in 1..MaxLimit
    /\ auto_paginate = TRUE
    /\ max_items = None
    /\ base_params \in BaseParamsOf(tool)
    /\ params = base_params
    /\ all_items = <<>>
    /\ has_more = TRUE
    /\ more_starting_after = None
    /\ total_fetched = 0
    /\ data = NoData
    /\ pc = "call"
    /\ requests = <<>>
    /\ error = "none"
    /\ result = NoResult
    /\ parent = NoData
    /\ validation_rules = <<>>
    /\ idx = 0
    /\ ridx = 0
    /\ redeemables = <<>>
    /\ received = <<>>
    /\ tool_error = FALSE
    /\ email = NoString
    /\ id = NoString
    /\ other \in {OtherStart(lim) : lim \in 1..MaxLimit}

\* the variables of the first invocation
first == <<tool, pc, requests, error, result, plocals, hvars, cargs>>

\* params = base_params.copy(); params["limit"] = limit
OtherCall ==
    /\ other["pc"] = "call"
    /\ other' = [other EXCEPT !["pc"] = "loop",
                               !["params"] = Put(base_params, "limit", other["limit"])]
    /\ UNCHANGED first

OtherRequest ==
    /\ other["pc"] = "loop"
    /\ other["has_more"]
    /\ max_items = None \/ other["total_fetched"] < max_items
    /\ other' = [other EXCEPT !["pc"] = "await",
                               !["requests"] = Append(other["requests"], other["params"])]
    /\ UNCHANGED first

\* the second invocation writing its cursor into the mapping it was given
OtherPage_Alias ==
    /\ other["pc"] = "await"
    /\ LET body  == HonestTimestampBody(other["params"], T)
           items == SliceToMax(_safe_get(body, data_key, <<>>))
           hm    == _safe_get(body, "has_more", FALSE)
           all   == Extend(other["all_items"], items)
           tot   == other["total_fetched"] + Len(items)
       IN  IF ~hm \/ ~auto_paginate
           THEN /\ other' = [other EXCEPT !["pc"] = "exit", !["all_items"] = all,
                                          !["total_fetched"] = tot, !["has_more"] = hm]
                /\ UNCHANGED base_params
           ELSE IF items # <<>> /\ Truthy(LastCursor(items))
           THEN /\ other' = [other EXCEPT !["pc"] = "loop", !["all_items"] = all,
                                          !["total_fetched"] = tot, !["has_more"] = hm,
                                          !["more_starting_after"] = LastCursor(items),
                                          !["params"] = Put(other["params"], "starting_after",
                                                            LastCursor(items))]
                /\ base_params' = Put(base_params, "starting_after", LastCursor(items))
           ELSE /\ other' = [other EXCEPT !["pc"] = "loop", !["all_items"] = all,
                                          !["total_fetched"] = tot, !["has_more"] = FALSE,
                                          !["more_starting_after"] =
                                              IF items # <<>> THEN LastCursor(items)
                                              ELSE other["more_starting_after"]]
                /\ UNCHANGED base_params
    /\ UNCHANGED <<tool, pc, requests, error, result, hvars, cargs, server, T, limit,
                   auto_paginate, max_items, params, all_items, has_more,
                   more_starting_after, total_fetched, data>>

\* the body of the loop of the second invocation, on its own locals
OtherPage ==
    /\ other["pc"] = "await"
    /\ LET body  == HonestTimestampBody(other["params"], T)
           items == SliceToMax(_safe_get(body, data_key, <<>>))
           hm    == _safe_get(body, "has_more", FALSE)
           all   == Extend(other["all_items"], items)
           tot   == other["total_fetched"] + Len(items)
       IN  IF ~hm \/ ~auto_paginate
           THEN other' = [other EXCEPT !["pc"] = "exit", !["all_items"] = all,
                                       !["total_fetched"] = tot, !["has_more"] = hm]
           ELSE IF items # <<>> /\ Truthy(LastCursor(items))
           THEN other' = [other EXCEPT !["pc"] = "loop", !["all_items"] = all,
                                       !["total_fetched"] = tot, !["has_more"] = hm,
                                       !["more_starting_after"] = LastCursor(items),
                                       !["params"] = Put(other["params"], "starting_after",
                                                         LastCursor(items))]
           ELSE other' = [other EXCEPT !["pc"] = "loop", !["all_items"] = all,
                                       !["total_fetched"] = tot, !["has_more"] = FALSE,
                                       !["more_starting_after"] =
                                           IF items # <<>> THEN LastCursor(items)
                                           ELSE other["more_starting_after"]]
    /\ UNCHANGED first

OtherReturn ==
    /\ \/ other["pc"] = "exit"
       \/ /\ other["pc"] = "loop"
          /\ ~(other["has_more"] /\ (max_items = None \/ other["total_fetched"] < max_items))
    /\ other' = [other EXCEPT !["pc"] = "done",
                               !["result"] = TimestampResult(other["all_items"],
                                                             other["has_more"],
                                                             other["more_starting_after"])]
    /\ UNCHANGED first

OtherRequestFails ==
    /\ other["pc"] = "await"
    /\ \E exc \in Failures :
         other' = [other EXCEPT !["pc"] = "failed",
                                !["error"] = VoucherifyErrorOf(exc)["error_type"]]
    /\ UNCHANGED first

NextPair ==
    \/ TimestampCall \/ TimestampRequest \/ TimestampPage \/ TimestampReturn
    \/ RequestFails
    \/ OtherCall \/ OtherRequest \/ OtherPage \/ OtherReturn \/ OtherRequestFails

SpecPair == InitPair /\ [][NextPair]_vars

(***************************************************************************)
(* Every invocation the model knows: a pagination function called          *)
(* directly, or one of the tool handlers.                                  *)
(***************************************************************************)
InitAll == Init \/ InitRules \/ InitList

NextAll == Next \/ NextRules \/ NextList

SpecAll == InitAll /\ [][NextAll]_vars

(***************************************************************************)
(* Properties of the pagination engine.                                    *)
(***************************************************************************)
C1_Case ==
    /\ tool = "timestamp" /\ server = "honest"
    /\ auto_paginate /\ max_items = None
    /\ "starting_after" \notin DOMAIN base_params
    /\ pc = "done"

\* C1: _auto_paginate_timestamp with auto_paginate=true and max_items=None
\* against an honest server holding T items returns exactly the T items in
\* server order, with has_more=false, for every limit and every T.
C1_TimestampReturnsAll ==
    C1_Case => /\ result[data_key] = ServerItems(T)
               /\ result["has_more"] = FALSE

\* two full pages and a shorter third one
C1_Witness ==
    /\ C1_Case
    /\ limit = 2 /\ T = 5
    /\ Len(requests) = 3
    /\ Len(result[data_key]) = 5

C2_Case == max_items # None /\ (tool = "pages" => auto_paginate)

\* C2: with max_items = m, in each strategy the accumulated items never
\* exceed m, the returned item list has length <= m, and a page that would
\* go over the cap is cut to fit rather than dropped.
C2_NeverExceedsMax ==
    /\ [](C2_Case => /\ Len(all_items) <= max_items
                     /\ total_fetched <= max_items
                     /\ (pc = "done" => Len(result[data_key]) <= max_items))
    /\ [][(C2_Case /\ pc = "await" /\ pc' \in {"loop", "exit"})
            => Len(all_items') =
                 Min(max_items, Len(all_items) + Len(_safe_get(data', data_key, <<>>)))]_vars

\* a second page of two items cut to one by max_items = 3
C2_Witness ==
    /\ C2_Case /\ tool \in Strategies
    /\ pc = "done"
    /\ max_items = 3
    /\ Len(requests) = 2
    /\ Len(_safe_get(data, data_key, <<>>)) = 2
    /\ Len(result[data_key]) = 3

C3_Case ==
    /\ tool = "timestamp" /\ server = "honest"
    /\ auto_paginate /\ max_items # None /\ max_items <= T
    /\ "starting_after" \notin DOMAIN base_params
    /\ pc = "done"

\* C3: _auto_paginate_timestamp with max_items = m <= T against an honest
\* server returns exactly the first m items, and when m < T the envelope has
\* has_more=true and carries more_starting_after.
C3_CappedTimestamp ==
    C3_Case => /\ result[data_key] = SubSeq(ServerItems(T), 1, max_items)
               /\ max_items < T => /\ result["has_more"] = TRUE
                                   /\ "more_starting_after" \in DOMAIN result

C4_Case ==
    /\ tool = "timestamp"
    /\ pc = "done"
    /\ "more_starting_after" \in DOMAIN result

\* C4: when the envelope of _auto_paginate_timestamp carries
\* more_starting_after, it is the cursor_field value of the last item of the
\* envelope, and an honest server asked to continue after it answers with the
\* item that follows the last one returned.
C4_CursorIsLastItem ==
    C4_Case =>
        LET items == result[data_key]
        IN  /\ items # <<>>
            /\ result["more_starting_after"] = _safe_get(items[Len(items)], cursor_field, None)
            /\ server = "honest" =>
                 LET follow == HonestTimestampBody(
                                   Put(Put(base_params, "limit", limit), "starting_after",
                                       result["more_starting_after"]), T)[data_key]
                 IN  /\ follow # <<>>
                     /\ follow[1]["id"] = items[Len(items)]["id"] + 1

\* max_items = 3 over pages of 2: the cursor is that of the third item
C4_Witness ==
    /\ C4_Case /\ server = "honest"
    /\ limit = 2 /\ max_items = 3 /\ T = 5
    /\ Len(result[data_key]) = 3
    /\ result["more_starting_after"] = TsOf(3)

C5_Case ==
    /\ tool = "pages" /\ server = "honest"
    /\ auto_paginate /\ max_items # None /\ max_items >= 1 /\ T > max_items
    /\ page_param \notin DOMAIN base_params
    /\ pc = "done"

\* C5: _auto_paginate_pages with max_items = m < T against an honest server
\* returns exactly m items and has_more=true, whether or not m is a multiple
\* of limit.
C5_CappedPages ==
    C5_Case => /\ Len(result[data_key]) = max_items
               /\ result["has_more"] = TRUE

\* C6: when a page request fails the call ends with that error: nothing is
\* returned, no further request is issued and the request is not repeated.
C6_FailureAborts ==
    /\ [](error # "none" => /\ pc = "failed"
                            /\ error \in ErrorTypes
                            /\ result = NoResult)
    /\ [][error # "none" => UNCHANGED <<requests, result, pc>>]_vars
    /\ [][error' # "none" => requests' = requests]_vars

\* the second page fails after the first one was accumulated
C6_Witness ==
    /\ tool \in Strategies
    /\ pc = "failed"
    /\ Len(requests) = 2
    /\ Len(all_items) > 0

C7_Case ==
    /\ tool \in Strategies
    /\ tool = "pages" => auto_paginate
    /\ pc = "done"

\* C7: in every envelope the three strategies build, has_more=false implies
\* that the more_starting_after key is absent, whatever the server answered.
C7_NoCursorWithoutMore ==
    (C7_Case /\ result["has_more"] = FALSE) => "more_starting_after" \notin DOMAIN result

\* a cursor was read off an earlier page, then a page said has_more=false
C7_Witness ==
    /\ C7_Case /\ server = "any"
    /\ tool = "timestamp"
    /\ Truthy(more_starting_after)
    /\ result["has_more"] = FALSE

(***************************************************************************)
(* Properties of the validation-rule enrichment.                           *)
(***************************************************************************)
\* the assignments field f of doc is absent, or its total is 0
NothingToResolve(doc, f) ==
    \/ f \notin DOMAIN doc
    \/ "total" \in DOMAIN doc[f] /\ doc[f]["total"] = 0

\* C8: at each of the four call sites, when the assignments field is absent
\* or its total is 0, no validation-rule request is issued and the resolved
\* rule sequence is empty.
C8_NothingToResolve ==
    /\ (tool \in Handlers /\ Len(received) >= 1 /\ error # "KeyError"
          /\ NothingToResolve(received[1], AssignmentsField(tool)))
        => /\ Len(requests) = 1
           /\ validation_rules = <<>>
    /\ (tool = "get_best_deals" /\ Len(received) >= 1)
        => \A j \in 1..Len(received[1]["redeemables"]["data"]) :
             NothingToResolve(received[1]["redeemables"]["data"][j],
                              "validation_rules_assignments")
             => /\ ~(pc = "rule_await" /\ ridx = j)
                /\ ridx = j => validation_rules = <<>>
                /\ j <= Len(redeemables) => redeemables[j]["validation_rules"] = <<>>

\* the rule requests, in order, that resolving the redeemables rs takes
RECURSIVE RuleRequestsOf(_)
RuleRequestsOf(rs) ==
    IF rs = <<>> THEN <<>>
    ELSE LET r == rs[1]
             a == IF "validation_rules_assignments" \in DOMAIN r
                  THEN r["validation_rules_assignments"]["data"] ELSE <<>>
         IN  [i \in 1..Len(a) |-> GetRequest(RuleEndpoint, a[i]["rule_id"])]
             \o RuleRequestsOf(Tail(rs))

C9_Case ==
    /\ tool \in Handlers
    /\ pc = "done"
    /\ AssignmentsField(tool) \in DOMAIN received[1]
    /\ received[1][AssignmentsField(tool)]["total"] > 0

\* C9: with assignments data = [a1..aN] and total > 0 the handler issues the
\* parent fetch and then exactly N rule fetches, the i-th for ai.rule_id, in
\* list order; the resolved array has N entries, entry i built from the
\* response to fetch i; nothing is deduplicated or reordered.  In
\* get_best_deals the rule fetches follow the redeemables and their
\* assignments in order.
C9_OneFetchPerAssignment ==
    /\ C9_Case =>
         LET a     == received[1][AssignmentsField(tool)]["data"]
             rules == result["json"]["assigned_validation_rules"]
         IN  /\ Len(requests) = Len(a) + 1
             /\ requests[1] = GetRequest(ParentEndpoint(tool), "p1")
             /\ \A i \in 1..Len(a) :
                    requests[i + 1] = GetRequest(RuleEndpoint, a[i]["rule_id"])
             /\ Len(rules) = Len(a)
             /\ \A i \in 1..Len(a) : rules[i] = NormalizedRule(received[i + 1])
    /\ (tool = "get_best_deals" /\ pc = "done"
          /\ received[1]["redeemables"]["total"] # 0)
        => /\ Tail(requests) = RuleRequestsOf(received[1]["redeemables"]["data"])
           /\ Len(received) = Len(requests)

\* the same rule id assigned twice: fetched twice, two entries
C9_Witness ==
    /\ C9_Case
    /\ Len(requests) = 3
    /\ requests[2] = requests[3]
    /\ received[2] # received[3]
    /\ result["json"]["assigned_validation_rules"]
         = <<NormalizedRule(received[2]), NormalizedRule(received[3])>>

\* C10: when a validation-rule fetch fails the tool call fails with a
\* ToolError: no later rule fetch is issued, the parent is not fetched again,
\* nothing is retried and no document is returned.
C10_RuleFailureAborts ==
    /\ []((tool \in AllHandlers /\ error # "none")
            => /\ pc = "failed"
               /\ tool_error
               /\ result = NoResult
               /\ error \in ErrorTypes => Len(requests) = Len(received) + 1)
    /\ [](tool \in AllHandlers
            => \A i \in 2..Len(requests) : requests[i]["endpoint"] = RuleEndpoint)
    /\ [][(tool \in AllHandlers /\ error # "none")
            => UNCHANGED <<requests, received, result, pc>>]_vars
    /\ [][(tool \in AllHandlers /\ error' # error)
            => (requests' = requests /\ result' = result)]_vars

\* the second of two rule fetches fails after the first was resolved
C10_Witness ==
    /\ tool \in Handlers
    /\ pc = "failed" /\ error \in ErrorTypes
    /\ Len(requests) = 3
    /\ Len(parent[AssignmentsField(tool)]["data"]) = 2
    /\ Len(validation_rules) = 1

\* C11: whenever the fetched parent carries the raw assignments field, the
\* document returned by get_campaign, get_voucher and get_promotion_tier has
\* assigned_validation_rules (empty when there is nothing to resolve) in place
\* of the raw field, which is never in the output; every other field of the
\* parent is returned unchanged.
C11_SplicedInPlace ==
    (tool \in Handlers /\ pc = "done"
       /\ AssignmentsField(tool) \in DOMAIN received[1])
     => LET f   == AssignmentsField(tool)
            out == result["json"]
        IN  /\ f \notin DOMAIN out
            /\ "assigned_validation_rules" \in DOMAIN out
            /\ NothingToResolve(received[1], f)
                 => out["assigned_validation_rules"] = <<>>
            /\ \A k \in DOMAIN received[1] \ {f} :
                 k \in DOMAIN out /\ out[k] = received[1][k]

(***************************************************************************)
(* Properties of the strategies on malformed pages and on their requests.  *)
(***************************************************************************)
\* the last body _auto_paginate_id received says has_more=true and has no
\* truthy more_starting_after
C12_Case ==
    /\ tool = "id"
    /\ pc \in {"loop", "exit", "done"}
    /\ Len(requests) >= 1
    /\ _safe_get(data, "has_more", FALSE)
    /\ ~Truthy(_safe_get(data, "more_starting_after", None))

\* C12 as stated: after such a page no further request is issued and the
\* envelope has has_more=false, for every limit, max_items and auto_paginate.
C12_NoCursorEndsId ==
    /\ [](C12_Case => /\ pc = "loop" => ~LoopGuard
                      /\ pc = "done" => ~result["has_more"])
    /\ [][C12_Case => requests' = requests]_vars

\* C12, amended: after such a page no further request is issued; the envelope
\* has has_more=false when auto_paginate is true, and keeps the body's
\* has_more=true when auto_paginate is false.
C12_NoCursorEndsIdLoop ==
    /\ [](C12_Case => /\ pc = "loop" => ~LoopGuard
                      /\ pc = "done" => result["has_more"] = ~auto_paginate)
    /\ [][C12_Case => requests' = requests]_vars

\* a second page says has_more=true with a falsy cursor and the loop ends
C12_Witness ==
    /\ C12_Case
    /\ pc = "done" /\ auto_paginate
    /\ Len(requests) = 2
    /\ "more_starting_after" \in DOMAIN data
    /\ ~result["has_more"]

\* the number of items in the page body _auto_paginate_pages holds
PageCount(body) == Len(_safe_get(body, data_key, <<>>))

\* C13: _auto_paginate_pages with auto_paginate=true: a page with zero items
\* or with fewer than limit items ends pagination (has_more=false, no further
\* request); a page with exactly limit items, while max_items is not reached,
\* is followed by one request for the next page number, so the page numbers
\* requested are consecutive and each is requested once.
C13_PagesLastPageHeuristic ==
    /\ [][(tool = "pages" /\ auto_paginate /\ pc = "await" /\ pc' \in {"loop", "exit"})
            => /\ PageCount(data') < limit
                    => (pc' = "exit" /\ ~has_more' /\ params' = params)
               /\ (PageCount(data') = limit
                     /\ (max_items = None \/ total_fetched' < max_items))
                    => /\ pc' = "loop" /\ LoopGuard'
                       /\ params' = Put(params, page_param, params[page_param] + 1)]_vars
    /\ [][(tool = "pages" /\ auto_paginate /\ requests' # requests)
            => (pc = "loop" /\ pc' = "await" /\ requests' = Append(requests, params))]_vars
    /\ [][(tool = "pages" /\ pc = "exit") => requests' = requests]_vars
    /\ []((tool = "pages" /\ auto_paginate)
            => /\ \A i \in 1..(Len(requests) - 1) :
                    requests[i + 1][page_param] = requests[i][page_param] + 1
               /\ (pc = "done" /\ Len(requests) >= 1 /\ PageCount(data) < limit)
                    => ~result["has_more"])

\* a full first page, then page 2 with fewer than limit items ends the run
C13_Witness ==
    /\ tool = "pages" /\ auto_paginate /\ pc = "done"
    /\ Len(requests) = 2
    /\ requests[1][page_param] = 1 /\ requests[2][page_param] = 2
    /\ PageCount(data) \in 1..(limit - 1)
    /\ Len(all_items) = limit + PageCount(data)
    /\ ~result["has_more"]

\* the request key that carries the position of strategy t
PositionKey(t) ==
    IF t = "timestamp" THEN "starting_after"
    ELSE IF t = "id" THEN "starting_after_id"
    ELSE page_param

\* the single raw request of _auto_paginate_pages with auto_paginate=false
RawMode == tool = "pages" /\ ~auto_paginate

\* C14 as stated: in every request limit is the limit argument, and a value
\* supplied in base_params for starting_after, starting_after_id or page is
\* never sent to the server, on the first request or on a later one.
C14_BaseParamsNeverSent ==
    tool \in Strategies
      => \A i \in 1..Len(requests) :
           /\ _safe_get(requests[i], "limit", None) = limit
           /\ PositionKey(tool) \in DOMAIN base_params
                => _safe_get(requests[i], PositionKey(tool), None)
                     # base_params[PositionKey(tool)]

\* C14, amended: in every request of the loop limit is the limit argument;
\* the first request carries the position supplied in base_params (none when
\* base_params has none, page 1 by default), and each later request carries
\* the engine's loop value: the cursor of the last item, the cursor of the
\* last body, or the previous page number + 1. With auto_paginate=false the
\* pages strategy sends base_params unchanged.
C14_EngineOverwritesAfterFirst ==
    /\ []((tool \in Strategies /\ ~RawMode)
            => /\ \A i \in 1..Len(requests) :
                    _safe_get(requests[i], "limit", None) = limit
               /\ Len(requests) >= 1
                    => _safe_get(requests[1], PositionKey(tool), None)
                         = IF tool = "pages" THEN FirstPage(base_params)
                           ELSE _safe_get(base_params, PositionKey(tool), None))
    /\ [](RawMode => requests \in {<<>>, <<base_params>>})
    /\ [][(tool \in Strategies /\ requests' # requests /\ ~RawMode)
            => requests' = Append(requests, params)]_vars
    /\ [][(tool \in Strategies /\ pc = "await" /\ pc' = "loop" /\ LoopGuard')
            => params' = Put(params, PositionKey(tool),
                             IF tool = "timestamp"
                             THEN all_items'[Len(all_items')][cursor_field]
                             ELSE IF tool = "id" THEN data'["more_starting_after"]
                             ELSE params[page_param] + 1)]_vars

\* base_params had a limit and a starting cursor: the first request carries
\* the limit argument and the caller's cursor, the second the engine's cursor
C14_Witness ==
    /\ tool = "timestamp"
    /\ Len(requests) = 2
    /\ "starting_after" \in DOMAIN base_params
    /\ requests[1]["starting_after"] = base_params["starting_after"]
    /\ requests[2]["starting_after"] # base_params["starting_after"]
    /\ requests[2]["limit"] = limit

\* r is a list envelope: object, data_ref, the items under data_key, has_more,
\* and at most the cursor besides
IsEnvelope(r) ==
    /\ {"object", "data_ref", data_key, "has_more"} \subseteq DOMAIN r
    /\ DOMAIN r \subseteq {"object", "data_ref", data_key, "has_more", "more_starting_after"}
    /\ r["object"] = "list"
    /\ r["data_ref"] = data_key
    /\ r["has_more"] \in BOOLEAN
    /\ r[data_key] = all_items

\* C15 as stated: every successful return of the three strategies, for both
\* values of auto_paginate, is an envelope of the one shape.
C15_OneEnvelopeShape ==
    (tool \in Strategies /\ pc = "done") => IsEnvelope(result)

\* C15, amended: every successful return of the timestamp and id strategies,
\* and of the pages strategy with auto_paginate=true, is an envelope of the
\* one shape; the pages strategy with auto_paginate=false returns the body of
\* its single response unchanged.
C15_EnvelopeUnlessRawPages ==
    /\ (tool \in Strategies /\ pc = "done" /\ ~RawMode) => IsEnvelope(result)
    /\ (RawMode /\ pc = "done") => result \in Responses(base_params)

\* a single-request run of the id strategy returns items in the envelope
C15_Witness ==
    /\ tool = "id" /\ ~auto_paginate /\ pc = "done"
    /\ IsEnvelope(result)
    /\ Len(result[data_key]) >= 1

\* C16 as stated: with auto_paginate=false each of the three strategies
\* issues exactly one request, whatever the response says.
C16_ExactlyOneRequest ==
    (tool \in Strategies /\ ~auto_paginate)
      => /\ Len(requests) <= 1
         /\ pc = "done" => Len(requests) = 1

\* C16, amended: with auto_paginate=false each strategy issues at most one
\* request and follows no cursor or page number, whatever the response says:
\* exactly one, except that the timestamp and id strategies issue none when
\* max_items is 0.
C16_OneRequestUnlessZeroCap ==
    (tool \in Strategies /\ ~auto_paginate)
      => /\ Len(requests) <= 1
         /\ pc = "done"
              => Len(requests) = IF tool # "pages" /\ max_items = 0 THEN 0 ELSE 1
         /\ (Len(requests) = 1 /\ ~RawMode)
              => requests[1] = Put(base_params, "limit", limit)
         /\ (~RawMode /\ pc # "call") => params = Put(base_params, "limit", limit)

\* the only response said has_more=true and the run ended after it
C16_Witness ==
    /\ tool = "timestamp" /\ ~auto_paginate /\ pc = "done"
    /\ Len(requests) = 1
    /\ _safe_get(data, "has_more", FALSE)
    /\ PageCount(data) >= 1
    /\ result["has_more"]

\* the last body a strategy received (auto_paginate=true) has no array under
\* data_key
C17_Case ==
    /\ tool \in Strategies /\ auto_paginate
    /\ pc \in {"loop", "exit", "done"}
    /\ Len(requests) >= 1
    /\ data_key \notin DOMAIN data

\* C17: in all three strategies (auto_paginate=true) a page body with no
\* array under data_key raises no error, contributes no items and ends the
\* pagination with that page; if it is the first page the envelope has an
\* empty item list.
C17_NoArrayEndsPagination ==
    /\ [](C17_Case => /\ error = "none"
                      /\ pc = "loop" => ~LoopGuard
                      /\ (pc = "done" /\ Len(requests) = 1) => result[data_key] = <<>>)
    /\ [][C17_Case' => (all_items' = all_items /\ (C17_Case => requests' = requests))]_vars

\* C18: when the parent's assignments field is present but has no total,
\* get_campaign, get_voucher and get_promotion_tier do not fail: nothing is
\* resolved, no validation-rule fetch is issued and the document is returned.
C18_MissingTotalTolerated ==
    (tool \in Handlers /\ Len(received) >= 1
       /\ AssignmentsField(tool) \in DOMAIN received[1]
       /\ "total" \notin DOMAIN received[1][AssignmentsField(tool)])
     => /\ ~tool_error
        /\ error = "none"
        /\ Len(requests) = 1
        /\ pc = "done"
        /\ result # NoResult

RuleKeys == {"rules", "bundle_rules", "applicable_to"}

\* entry e has exactly the three rule keys, with the values of the rule
\* response val_rule
IsTriple(e, val_rule) ==
    /\ DOMAIN e = RuleKeys
    /\ \A k \in RuleKeys : e[k] = val_rule[k]

\* entry e of get_best_deals: the triple of some fetched rule under
\* validation_rules_definition and the two status fields
IsBestDealEntry(e) ==
    /\ DOMAIN e = {"validation_rules_definition", "validation_status",
                   "validation_omitted_sub_rules"}
    /\ \E k \in 2..Len(received) : IsTriple(e["validation_rules_definition"], received[k])

\* C19: every resolved rule entry of get_campaign, get_voucher and
\* get_promotion_tier has exactly the keys rules, bundle_rules and
\* applicable_to with the values of the fetched rule (its name and other
\* fields are dropped); in get_best_deals the same triple is carried under
\* validation_rules_definition with only the two status fields added.
C19_EntryShape ==
    /\ tool \in Handlers
         => /\ \A i \in 1..Len(validation_rules) :
                 IsTriple(validation_rules[i], received[i + 1])
            /\ (pc = "done" /\ "assigned_validation_rules" \in DOMAIN result["json"])
                 => result["json"]["assigned_validation_rules"] = validation_rules
    /\ tool = "get_best_deals"
         => /\ \A i \in 1..Len(validation_rules) : IsBestDealEntry(validation_rules[i])
            /\ \A j \in 1..Len(redeemables) :
                 \A i \in 1..Len(redeemables[j]["validation_rules"]) :
                    IsBestDealEntry(redeemables[j]["validation_rules"][i])

\* two rules resolved into the returned document, each response having had a
\* name
C19_Witness ==
    /\ tool \in Handlers /\ pc = "done"
    /\ "assigned_validation_rules" \in DOMAIN result["json"]
    /\ Len(result["json"]["assigned_validation_rules"]) = 2
    /\ "name" \in DOMAIN received[2] /\ "name" \in DOMAIN received[3]
    /\ IsTriple(result["json"]["assigned_validation_rules"][2], received[3])

\* C20: in get_best_deals resolved entry i carries the validation status and
\* the omitted-rules value of assignment i; the two assignment fields are
\* optional, so an assignment that lacks them is still resolved and the tool
\* call does not fail.
C20_StatusFieldsOptional ==
    /\ [][(tool = "get_best_deals" /\ pc = "rule_await" /\ pc' = "rules")
            => LET a == Redeemable["validation_rules_assignments"]["data"][idx]
                   e == validation_rules'[Len(validation_rules')]
               IN  /\ Len(validation_rules') = idx
                   /\ e["validation_status"] = a["validation_status"]
                   /\ e["validation_omitted_sub_rules"] = a["validation_omitted_rules"]]_vars
    /\ []((tool = "get_best_deals" /\ Len(received) >= 2 /\ error = "KeyError")
            => ~HasRuleKeys(received[Len(received)]))

(***************************************************************************)
(* Properties of failures, of find_customer and list_campaigns, and of     *)
(* the order of the requests.                                              *)
(***************************************************************************)
\* the invocation waits for the response to its last request
Awaiting ==
    pc \in {"await", "raw_await", "parent_await", "rule_await",
            "customer_await", "list_await"}

\* C21: every failure of async_make_voucherify_request reaches its caller as
\* a VoucherifyError whose error_type is one of http, timeout, connection,
\* unexpected (http with the status code and the body); the pagination and
\* rule loops pass it on unchanged; every tool handler turns a failure into a
\* ToolError, and no handler returns a result after a failed request.
C21_FailureTaxonomy ==
    /\ [](\A exc \in Failures :
            LET v == VoucherifyErrorOf(exc)
            IN  /\ v["error_type"] \in ErrorTypes
                /\ IsInstance(exc, "HTTPStatusError")
                     => v = [error_type |-> "http", status_code |-> exc["status_code"],
                             response_text |-> exc["text"]])
    /\ [][(Awaiting /\ error' # error /\ received' = received /\ data' = data)
            => /\ error' \in ErrorTypes
               /\ pc' = "failed"
               /\ tool_error' = (tool \notin Strategies)
               /\ UNCHANGED <<requests, result, all_items, validation_rules>>]_vars
    /\ []((tool \notin Strategies /\ pc = "failed") => tool_error)
    /\ [](error # "none" => (pc = "failed" /\ result = NoResult))
    /\ [][error # "none" => UNCHANGED <<pc, result, requests>>]_vars

\* the second page request of list_campaigns was refused by the server: the
\* handler fails with a ToolError and returns nothing
C21_Witness ==
    /\ tool = "list_campaigns"
    /\ pc = "failed" /\ error = "http" /\ tool_error
    /\ Len(requests) = 2
    /\ Len(all_items) = ListLimit
    /\ result = NoResult

\* C22: find_customer requires exactly one of email and id: called with both
\* or with neither it fails with a ToolError and issues no request; called
\* with exactly one it issues exactly one request, the customer fetch by id
\* or the list lookup by email with limit 1.
C22_ExactlyOneOfEmailAndId ==
    (tool = "find_customer" /\ pc # "call")
      => IF (email # NoString) = (id # NoString)
         THEN /\ requests = <<>>
              /\ pc = "failed" /\ tool_error
         ELSE /\ Len(requests) = 1
              /\ requests[1] = IF id # NoString
                               THEN GetRequest("/v1/customers/{id}", id)
                               ELSE EmailLookup(email)

ListMaxRequests == ListMaxItems \div ListLimit

C24_OneRequestInFlight ==
    /\ [][requests' # requests
            => /\ ~Awaiting /\ Awaiting'
               /\ Len(requests') = Len(requests) + 1
               /\ SubSeq(requests', 1, Len(requests)) = requests]_vars
    /\ [][Awaiting => requests' = requests]_vars
    /\ [](tool \notin (Strategies \cup {"list_campaigns"})
            => /\ Len(received) <= Len(requests)
               /\ Len(requests) <= Len(received) + 1
               /\ Awaiting => Len(requests) = Len(received) + 1)
    /\ []((tool = "get_best_deals" /\ Len(received) >= 1 /\ Len(requests) >= 2)
            => LET all == RuleRequestsOf(received[1]["redeemables"]["data"])
               IN  /\ Len(requests) - 1 <= Len(all)
                   /\ Tail(requests) = SubSeq(all, 1, Len(requests) - 1)
                   /\ \A j \in 1..(ridx - 1) :
                        Len(redeemables) >= j)

\* the first rule fetch of the second redeemable is in flight; the fetches
\* of the first redeemable have all been answered
C24_Witness ==
    /\ tool = "get_best_deals" /\ pc = "rule_await"
    /\ ridx = 2 /\ idx = 1
    /\ Len(redeemables) = 1
    /\ Len(redeemables[1]["validation_rules"]) >= 1
    /\ Len(requests) = Len(received) + 1

\* what a run of _auto_paginate_timestamp alone returns from the honest
\* endpoint with no max_items: every item after the caller's cursor
ItemsAfterBase ==
    LET sa    == _safe_get(base_params, "starting_after", None)
        after == IF Truthy(sa) THEN Cardinality({i \in 1..T : TsOf(i) <= sa}) ELSE 0
    IN  SubSeq(ServerItems(T), after + 1, T)

\* C25: two invocations interleaved at their awaits do not affect each
\* other: each returns what it returns when run alone against the same
\* server, a step of one leaves the variables of the other as they are, and
\* a strategy never modifies the base_params mapping its caller passed in.
C25_InvocationsIndependent ==
    /\ [](pc = "done" => result = Envelope(ItemsAfterBase, FALSE))
    /\ [](other["pc"] = "done" => other["result"] = Envelope(ItemsAfterBase, FALSE))
    /\ [][base_params' = base_params]_vars
    /\ [][other' # other => UNCHANGED first]_vars
    /\ [][first' # first => other' = other]_vars

\* the two invocations ran page by page in turns, with different limits, and
\* both returned every item
C25_Witness ==
    /\ pc = "done" /\ other["pc"] = "done"
    /\ limit # other["limit"]
    /\ Len(requests) >= 2 /\ Len(other["requests"]) >= 2
    /\ "starting_after" \in DOMAIN base_params
    /\ result = other["result"]
    /\ Len(result[data_key]) >= 2

\* the items of body that the loop keeps: its page cut to the room left
KeptOf(body) == SliceToMax(_safe_get(body, data_key, <<>>))

\* _auto_paginate_timestamp (auto_paginate=true) takes in a page that says
\* has_more=true
C26_Step ==
    /\ tool = "timestamp" /\ auto_paginate
    /\ pc = "await" /\ pc' \in {"loop", "exit"}
    /\ _safe_get(data', "has_more", FALSE)

\* the loop has set has_more to false: no request follows and the envelope
\* has has_more=false and no cursor
C26_Ended ==
    /\ [][(tool = "timestamp" /\ auto_paginate /\ ~has_more /\ pc \in {"loop", "exit", "done"})
            => (requests' = requests /\ has_more' = has_more)]_vars
    /\ []((tool = "timestamp" /\ auto_paginate /\ ~has_more /\ pc \in {"loop", "exit", "done"})
            => /\ pc = "loop" => ~LoopGuard
               /\ pc = "done" => /\ ~result["has_more"]
                                 /\ "more_starting_after" \notin DOMAIN result)

\* C26 as stated: when a page has has_more=true but its last item has no
\* cursor_field (or a falsy one), or the page has no items, no further
\* request is issued and the envelope has has_more=false and no
\* more_starting_after.
C26_NoCursorEndsTimestamp ==
    /\ [][(C26_Step /\ (PageCount(data') = 0
                          \/ ~Truthy(LastCursor(_safe_get(data', data_key, <<>>)))))
            => (~has_more' /\ params' = params)]_vars
    /\ C26_Ended

\* C26, amended: the same, for the last item the loop keeps of the page
\* after the cut to max_items.
C26_NoCursorOnLastKeptItem ==
    /\ [][(C26_Step /\ (KeptOf(data') = <<>> \/ ~Truthy(LastCursor(KeptOf(data')))))
            => (~has_more' /\ params' = params)]_vars
    /\ C26_Ended

\* a second page says has_more=true and its last item has a falsy cursor:
\* the run returns both pages with has_more=false and no cursor
C26_Witness ==
    /\ tool = "timestamp" /\ auto_paginate /\ pc = "done"
    /\ Len(requests) = 2
    /\ _safe_get(data, "has_more", FALSE)
    /\ PageCount(data) >= 1
    /\ cursor_field \in DOMAIN data[data_key][PageCount(data)]
    /\ ~Truthy(LastCursor(data[data_key]))
    /\ Len(all_items) >= 2
    /\ ~result["has_more"] /\ "more_starting_after" \notin DOMAIN result

\* C27: _auto_paginate_id with auto_paginate=true: the starting_after_id of
\* request k+1 is the more_starting_after of response k, never a value
\* derived from an item, and every other parameter of request k+1 equals
\* that of request k.
C27_IdCursorFromBody ==
    [][(tool = "id" /\ auto_paginate /\ requests' # requests /\ Len(requests) >= 1)
         => /\ "more_starting_after" \in DOMAIN data
            /\ requests' = Append(requests,
                                  Put(requests[Len(requests)], "starting_after_id",
                                      data["more_starting_after"]))]_vars

\* the second request carries the cursor of the first body, which is not the
\* id of the last item of that page
C27_Witness ==
    /\ tool = "id" /\ auto_paginate /\ pc = "await"
    /\ Len(requests) = 2
    /\ PageCount(data) = 2
    /\ requests[2]["starting_after_id"] = data["more_starting_after"]
    /\ data[data_key][2]["id"] # data["more_starting_after"]
    /\ requests[2]["limit"] = requests[1]["limit"]

\* C28: with auto_paginate=true and max_items = m >= 1, each strategy ends
\* after at most m requests for every server behaviour: every page that does
\* not end the loop adds at least one item to the total.
C28_RequestsBoundedByMax ==
    /\ []((tool \in Strategies /\ auto_paginate /\ max_items # None /\ max_items >= 1)
            => Len(requests) <= max_items)
    /\ [][(tool \in Strategies /\ auto_paginate /\ max_items # None /\ max_items >= 1
             /\ pc = "await" /\ pc' = "loop" /\ LoopGuard')
            => total_fetched' >= total_fetched + 1]_vars

\* the first page a follow-up call of _auto_paginate_id receives when it
\* passes cursor c as starting_after_id to the honest endpoint
FollowUpPage(c) ==
    HonestIdBody(Put(Put(base_params, "starting_after_id", c), "limit", limit), T)[data_key]

\* C29: _auto_paginate_id with max_items: when the cap cuts a page short and
\* the envelope has has_more=true with a cursor, a follow-up call that sends
\* the envelope's more_starting_after as starting_after_id continues with the
\* item right after the last item returned, so that the two calls together
\* return every server item exactly once.
C29_FollowUpContinues ==
    (tool = "id" /\ server = "honest" /\ pc = "done" /\ max_items # None
       /\ result["has_more"] /\ "more_starting_after" \in DOMAIN result
       /\ Len(result[data_key]) >= 1
       /\ PageCount(data) >= 1
       /\ data[data_key][PageCount(data)] # result[data_key][Len(result[data_key])])
     => LET returned == result[data_key]
            last     == returned[Len(returned)]["id"]
            follow   == FollowUpPage(result["more_starting_after"])
        IN  IF follow = <<>> THEN last = T
            ELSE follow[1]["id"] = last + 1

\* C30: the more_starting_after of an envelope returned by _auto_paginate_id
\* is a value the server returned as more_starting_after during this call; a
\* starting_after_id passed in base_params is never echoed back as the
\* continuation cursor, for both values of auto_paginate.
C30_CursorFromThisCall ==
    (tool = "id" /\ pc = "done" /\ "more_starting_after" \in DOMAIN result)
      => /\ Len(requests) >= 1
         /\ "more_starting_after" \in DOMAIN data
         /\ result["more_starting_after"] = data["more_starting_after"]

====
